---- MODULE Spec2Model ----
(***************************************************************************)
(* Conway's Game of Life, game_of_life.py: the Board of Cell objects, the  *)
(* neighbour lookup, World.tick and the two seeding operations.            *)
(*                                                                         *)
(* A Python list of length n is a function on 0..n-1.  A generator, filter *)
(* or map object is the sequence of the values it yields.  A reference to  *)
(* a Cell object is the pair <<row, col>> of the slot of Board.cells that  *)
(* holds the object; the object itself is the record in that slot.         *)
(***************************************************************************)
EXTENDS Integers, Sequences, FiniteSets

VARIABLES
    n_rows,        \* Board.n_rows
    n_cols,        \* Board.n_cols
    cells,         \* Board.cells: list of rows, each a list of Cell objects
    _tick,         \* World._tick
    err,           \* "none", or the exception that ended the last call
    n_tick_calls,  \* history: the number of World.tick() calls made so far
    pc,            \* the statement of tick() to run next, "idle" outside a call
    locals,        \* the local variables of the tick() call in progress
    ret            \* the last read operation: its name, argument and return value

vars == <<n_rows, n_cols, cells, _tick, err, n_tick_calls, pc, locals, ret>>

(***************************************************************************)
(* Bounds of the model.                                                    *)
(***************************************************************************)
MaxDim == 3          \* Spec: n_rows and n_cols range over 0..MaxDim
MaxCells == 9        \* Spec: n_rows * n_cols is at most MaxCells
MaxGen == 2          \* Spec: tick() is called at most MaxGen times
MaxLive == 2         \* Spec: random_seed(n_live) with n_live in 0..MaxLive
MaxRunTicks == 100   \* pattern specifications: tick() is called at most so often
MaxDeadDim == 6      \* SpecAllDead: n_rows and n_cols range over 0..MaxDeadDim
MaxBlinkerDim == 7   \* SpecBlinker: n_rows and n_cols range over 5..MaxBlinkerDim
MaxSingleDim == 5    \* SpecSingle: n_rows and n_cols range over 1..MaxSingleDim
MaxSeedCells == 6    \* SpecSeed, SpecReads: n_rows * n_cols is at most MaxSeedCells
MaxOrderCells == 6   \* C13: every scan order is tried on grids of at most so many cells

(***************************************************************************)
(* Python's range(a, b) and list indexing.                                 *)
(***************************************************************************)
\* mutant: the end of the range is included
range_end_included(a, b) == [i \in 1..(b - a + 1) |-> a + i - 1]

range(a, b) == [i \in 1..(b - a) |-> a + i - 1]

\* lst[i] is defined for -len <= i < len and raises IndexError otherwise
InRange(len, i) == -len <= i /\ i < len

\* the slot lst[i] reads: a negative index counts from the end of the list
PyIdx(len, i) == IF i >= 0 THEN i ELSE len + i

(***************************************************************************)
(* class Cell                                                              *)
(***************************************************************************)
Cell(row, col) == [row |-> row, col |-> col, _is_alive |-> FALSE]

set_alive(cell, alive) == [cell EXCEPT !._is_alive = alive]

is_alive(cell) == cell._is_alive

\* mutant: the negation is missing
is_dead_without_not(cell) == cell._is_alive

is_dead(cell) == ~cell._is_alive

\* the Cell object a reference points to, in the heap cs
deref(cs, ref) == cs[ref[1]][ref[2]]

(***************************************************************************)
(* class Cells: a wrapper of an iterable of Cell references                *)
(***************************************************************************)
\* mutant: the cells are counted whatever their state
get_n_alive_counts_all(cs, refs) == Len(refs)

get_n_alive(cs, refs) == Len(SelectSeq(refs, LAMBDA ref : is_alive(deref(cs, ref))))

\* mutant: the loop ends after its first cell
toggle_alive_first_only(cs, refs) ==
    IF refs = <<>> THEN cs
    ELSE LET ref == Head(refs)
             cell == deref(cs, ref)
         IN [cs EXCEPT ![ref[1]][ref[2]] = set_alive(cell, ~is_alive(cell))]

RECURSIVE toggle_alive(_, _)
toggle_alive(cs, refs) ==
    IF refs = <<>> THEN cs
    ELSE LET ref == Head(refs)
             cell == deref(cs, ref)
             cs1 == [cs EXCEPT ![ref[1]][ref[2]] = set_alive(cell, ~is_alive(cell))]
         IN toggle_alive(cs1, Tail(refs))

(***************************************************************************)
(* class Board                                                             *)
(***************************************************************************)
BoardCells(nr, nc) == [row \in 0..(nr - 1) |-> [col \in 0..(nc - 1) |-> Cell(row, col)]]

\* mutant: one more than the number of cells
one_dim_size_plus_one == n_rows * n_cols + 1

one_dim_size == n_rows * n_cols

\* mutant: a row is walked from its last cell to its first
RowRefs_right_to_left(row) == [j \in 1..n_cols |-> <<row, n_cols - j>>]

\* the references of one row, in list order
RowRefs(row) == [j \in 1..n_cols |-> <<row, j - 1>>]

\* "for row in self.cells: for cell in row": every reference, row by row
RECURSIVE IterCells(_)
IterCells(row) ==
    IF row >= n_rows THEN <<>> ELSE RowRefs(row) \o IterCells(row + 1)

get_living_cells(cs) == SelectSeq(IterCells(0), LAMBDA ref : is_alive(deref(cs, ref)))

\* mutant: the test of the cell is missing, every cell is yielded
get_dead_cells_yields_all(cs) == IterCells(0)

get_dead_cells(cs) == SelectSeq(IterCells(0), LAMBDA ref : is_dead(deref(cs, ref)))

\* the 8 index pairs, row_delta outermost, the pair (0, 0) skipped
_get_cell_neighbour_indices(cell) ==
    LET deltas == range(-1, 2)
        all == [k \in 1..9 |-> <<deltas[((k - 1) \div 3) + 1], deltas[((k - 1) % 3) + 1]>>]
        kept == SelectSeq(all, LAMBDA d : ~(d[1] = d[2] /\ d[2] = 0))
    IN [k \in 1..Len(kept) |-> <<cell.row + kept[k][1], cell.col + kept[k][2]>>]

\* mutant: the filter has no lower bounds, so -1 passes and the subscript
\* reads the last row or column
valid_index_no_lower_bound(idx) ==
    idx[1] < n_rows /\ idx[2] < n_cols

\* the filter of get_neighbours
valid_index(idx) ==
    idx[1] >= 0 /\ idx[1] < n_rows /\ idx[2] >= 0 /\ idx[2] < n_cols

\* map(lambda idx: self.cells[idx[0]][idx[1]], valid_indices); every index
\* that passes the filter is in range, so the subscripts raise nothing
get_neighbours(cs, ref) ==
    LET neighbour_indices == _get_cell_neighbour_indices(deref(cs, ref))
        valid_indices == SelectSeq(neighbour_indices, valid_index)
    IN [k \in 1..Len(valid_indices) |->
            <<PyIdx(n_rows, valid_indices[k][1]), PyIdx(n_cols, valid_indices[k][2])>>]

(***************************************************************************)
(* class World                                                             *)
(***************************************************************************)
\* mutant: a live cell with exactly two live neighbours dies too
living_cell_toggles_two_dies(n_alive_neighbours) ==
    IF n_alive_neighbours <= 2 THEN TRUE
    ELSE IF 3 >= n_alive_neighbours /\ n_alive_neighbours >= 2 THEN FALSE
    ELSE IF n_alive_neighbours > 3 THEN TRUE
    ELSE FALSE

\* mutant: overpopulation from three live neighbours on
living_cell_toggles_three_dies(n_alive_neighbours) ==
    IF n_alive_neighbours < 2 THEN TRUE
    ELSE IF n_alive_neighbours = 2 THEN FALSE
    ELSE IF n_alive_neighbours >= 3 THEN TRUE
    ELSE FALSE

\* mutant: underpopulation only with exactly one live neighbour
living_cell_toggles_one_only(n_alive_neighbours) ==
    IF n_alive_neighbours = 1 THEN TRUE
    ELSE IF 3 >= n_alive_neighbours /\ n_alive_neighbours >= 2 THEN FALSE
    ELSE IF n_alive_neighbours > 3 THEN TRUE
    ELSE FALSE

\* the if / elif / elif chain of _tick_living_cells
living_cell_toggles(n_alive_neighbours) ==
    IF n_alive_neighbours < 2 THEN TRUE
    ELSE IF 3 >= n_alive_neighbours /\ n_alive_neighbours >= 2 THEN FALSE
    ELSE IF n_alive_neighbours > 3 THEN TRUE
    ELSE FALSE

\* mutant: birth with up to three live neighbours
dead_cell_toggles_up_to_three(n_alive_neighbours) == n_alive_neighbours <= 3

dead_cell_toggles(n_alive_neighbours) == n_alive_neighbours = 3

_tick_living_cells(cs) ==
    SelectSeq(get_living_cells(cs),
              LAMBDA living_cell :
                  living_cell_toggles(get_n_alive(cs, get_neighbours(cs, living_cell))))

_tick_dead_cells(cs) ==
    SelectSeq(get_dead_cells(cs),
              LAMBDA dead_cell :
                  dead_cell_toggles(get_n_alive(cs, get_neighbours(cs, dead_cell))))

\* mutant: the generation counter is not incremented
tick_without_increment ==
    /\ err = "none"
    /\ LET live_to_toggle == _tick_living_cells(cells)
           dead_to_toggle == _tick_dead_cells(cells)
       IN cells' = toggle_alive(toggle_alive(cells, live_to_toggle), dead_to_toggle)
    /\ _tick' = _tick
    /\ n_tick_calls' = n_tick_calls + 1
    /\ UNCHANGED <<n_rows, n_cols, err, pc, locals, ret>>

\* mutant: the living cells are toggled before the dead cells are scanned
tick_interleaved ==
    /\ err = "none"
    /\ LET live_to_toggle == _tick_living_cells(cells)
           toggled == toggle_alive(cells, live_to_toggle)
           dead_to_toggle == _tick_dead_cells(toggled)
       IN cells' = toggle_alive(toggled, dead_to_toggle)
    /\ _tick' = _tick + 1
    /\ n_tick_calls' = n_tick_calls + 1
    /\ UNCHANGED <<n_rows, n_cols, err, pc, locals, ret>>

tick ==
    /\ err = "none"
    /\ LET live_to_toggle == _tick_living_cells(cells)
           dead_to_toggle == _tick_dead_cells(cells)
       IN cells' = toggle_alive(toggle_alive(cells, live_to_toggle), dead_to_toggle)
    /\ _tick' = _tick + 1
    /\ n_tick_calls' = n_tick_calls + 1
    /\ UNCHANGED <<n_rows, n_cols, err, pc, locals, ret>>

(***************************************************************************)
(* World.tick statement by statement: pc names the statement to run next.  *)
(***************************************************************************)
\* no tick() call in progress
NoLocals == [live_to_toggle |-> <<>>, dead_to_toggle |-> <<>>]

\* mutant: the living cells are toggled as soon as they have been scanned
tick_scan_living_and_toggle ==
    /\ pc = "idle"
    /\ err = "none"
    /\ locals' = [locals EXCEPT !.live_to_toggle = _tick_living_cells(cells)]
    /\ cells' = toggle_alive(cells, _tick_living_cells(cells))
    /\ pc' = "scan_dead"
    /\ n_tick_calls' = n_tick_calls + 1
    /\ UNCHANGED <<n_rows, n_cols, _tick, err, ret>>

\* the call, and live_to_toggle = self._tick_living_cells()
tick_scan_living ==
    /\ pc = "idle"
    /\ err = "none"
    /\ locals' = [locals EXCEPT !.live_to_toggle = _tick_living_cells(cells)]
    /\ pc' = "scan_dead"
    /\ n_tick_calls' = n_tick_calls + 1
    /\ UNCHANGED <<n_rows, n_cols, cells, _tick, err, ret>>

\* dead_to_toggle = self._tick_dead_cells()
tick_scan_dead ==
    /\ pc = "scan_dead"
    /\ locals' = [locals EXCEPT !.dead_to_toggle = _tick_dead_cells(cells)]
    /\ pc' = "toggle_live"
    /\ UNCHANGED <<n_rows, n_cols, cells, _tick, err, n_tick_calls, ret>>

\* live_to_toggle.toggle_alive()
tick_toggle_live ==
    /\ pc = "toggle_live"
    /\ cells' = toggle_alive(cells, locals.live_to_toggle)
    /\ pc' = "toggle_dead"
    /\ UNCHANGED <<n_rows, n_cols, _tick, err, n_tick_calls, locals, ret>>

\* dead_to_toggle.toggle_alive()
tick_toggle_dead ==
    /\ pc = "toggle_dead"
    /\ cells' = toggle_alive(cells, locals.dead_to_toggle)
    /\ pc' = "increment"
    /\ UNCHANGED <<n_rows, n_cols, _tick, err, n_tick_calls, locals, ret>>

\* self._tick += 1, and the return
tick_increment ==
    /\ pc = "increment"
    /\ _tick' = _tick + 1
    /\ pc' = "idle"
    /\ locals' = NoLocals
    /\ UNCHANGED <<n_rows, n_cols, cells, err, n_tick_calls, ret>>

(***************************************************************************)
(* The read operations, as a caller between two ticks makes them.          *)
(***************************************************************************)
\* no read made yet
NoReturn == [op |-> "none", arg |-> <<>>, value |-> <<>>]

\* cell.is_alive() on the cell at ref
call_is_alive(ref) ==
    /\ pc = "idle"
    /\ err = "none"
    /\ ret' = [op |-> "is_alive", arg |-> ref, value |-> is_alive(deref(cells, ref))]
    /\ UNCHANGED <<n_rows, n_cols, cells, _tick, err, n_tick_calls, pc, locals>>

\* cell.is_dead() on the cell at ref
call_is_dead(ref) ==
    /\ pc = "idle"
    /\ err = "none"
    /\ ret' = [op |-> "is_dead", arg |-> ref, value |-> is_dead(deref(cells, ref))]
    /\ UNCHANGED <<n_rows, n_cols, cells, _tick, err, n_tick_calls, pc, locals>>

\* list(board.get_living_cells())
call_get_living_cells ==
    /\ pc = "idle"
    /\ err = "none"
    /\ ret' = [op |-> "get_living_cells", arg |-> <<>>, value |-> get_living_cells(cells)]
    /\ UNCHANGED <<n_rows, n_cols, cells, _tick, err, n_tick_calls, pc, locals>>

\* list(board.get_dead_cells())
call_get_dead_cells ==
    /\ pc = "idle"
    /\ err = "none"
    /\ ret' = [op |-> "get_dead_cells", arg |-> <<>>, value |-> get_dead_cells(cells)]
    /\ UNCHANGED <<n_rows, n_cols, cells, _tick, err, n_tick_calls, pc, locals>>

\* board.get_neighbours(cell).get_n_alive() for the cell at ref
call_get_n_alive(ref) ==
    /\ pc = "idle"
    /\ err = "none"
    /\ ret' = [op |-> "get_n_alive", arg |-> ref,
               value |-> get_n_alive(cells, get_neighbours(cells, ref))]
    /\ UNCHANGED <<n_rows, n_cols, cells, _tick, err, n_tick_calls, pc, locals>>

\* int(x / y) for integers: the quotient truncated towards zero
int_div(x, y) == IF x >= 0 THEN x \div y ELSE -((-x) \div y)

\* mutant: the index is divided by the number of rows
find_cell_divides_by_rows(idx) ==
    IF n_cols = 0 THEN [err |-> "ZeroDivisionError", ref |-> <<>>]
    ELSE LET row == int_div(idx, n_rows)
             col == idx % n_cols
         IN IF ~InRange(n_rows, row) \/ ~InRange(n_cols, col)
            THEN [err |-> "IndexError", ref |-> <<>>]
            ELSE [err |-> "none", ref |-> <<PyIdx(n_rows, row), PyIdx(n_cols, col)>>]

\* Board.find_cell: the reference it returns, or the exception it raises
find_cell(idx) ==
    IF n_cols = 0 THEN [err |-> "ZeroDivisionError", ref |-> <<>>]
    ELSE LET row == int_div(idx, n_cols)
             col == idx % n_cols
         IN IF ~InRange(n_rows, row) \/ ~InRange(n_cols, col)
            THEN [err |-> "IndexError", ref |-> <<>>]
            ELSE [err |-> "none", ref |-> <<PyIdx(n_rows, row), PyIdx(n_cols, col)>>]

\* Board.find_cell_by_row_col: self.cells[row][col], first subscript first
find_cell_by_row_col(row, col) ==
    IF ~InRange(n_rows, row) THEN [err |-> "IndexError", ref |-> <<>>]
    ELSE IF ~InRange(n_cols, col) THEN [err |-> "IndexError", ref |-> <<>>]
    ELSE [err |-> "none", ref |-> <<PyIdx(n_rows, row), PyIdx(n_cols, col)>>]

\* random.randint(a, b): the values it can return, or the exception it
\* raises on an empty range
randint(a, b) ==
    IF a > b THEN [err |-> "ValueError", values |-> {}]
    ELSE [err |-> "none", values |-> a..b]

\* the loop of random_seed with x_left iterations to go: every outcome the
\* draws can produce, the heap it leaves and the exception that ended it
RECURSIVE random_seed_loop(_, _, _)
random_seed_loop(cs, world_len, x_left) ==
    IF x_left <= 0 THEN {[cells |-> cs, err |-> "none"]}
    ELSE LET drawn == randint(0, world_len - 1)
         IN IF drawn.err # "none" THEN {[cells |-> cs, err |-> drawn.err]}
            ELSE UNION {
                LET found == find_cell(cell_idx)
                IN IF found.err # "none" THEN {[cells |-> cs, err |-> found.err]}
                   ELSE random_seed_loop(
                           [cs EXCEPT ![found.ref[1]][found.ref[2]] =
                                          set_alive(deref(cs, found.ref), TRUE)],
                           world_len, x_left - 1)
                : cell_idx \in drawn.values }

random_seed(n_live) ==
    /\ err = "none"
    /\ \E res \in random_seed_loop(cells, one_dim_size, n_live) :
          /\ cells' = res.cells
          /\ err' = res.err
    /\ UNCHANGED <<n_rows, n_cols, _tick, n_tick_calls, pc, locals, ret>>

\* "for row in range(row_start, row_end): for col in range(col_start, col_end)"
rectangle(row_start, row_end, col_start, col_end) ==
    LET rows == range(row_start, row_end)
        cols == range(col_start, col_end)
    IN [k \in 1..(Len(rows) * Len(cols)) |->
            <<rows[((k - 1) \div Len(cols)) + 1], cols[((k - 1) % Len(cols)) + 1]>>]

\* the loop body of rectangle_seed over the positions still to visit
RECURSIVE rectangle_seed_loop(_, _)
rectangle_seed_loop(cs, positions) ==
    IF positions = <<>> THEN [cells |-> cs, err |-> "none"]
    ELSE LET found == find_cell_by_row_col(Head(positions)[1], Head(positions)[2])
         IN IF found.err # "none" THEN [cells |-> cs, err |-> found.err]
            ELSE rectangle_seed_loop(
                    [cs EXCEPT ![found.ref[1]][found.ref[2]] =
                                   set_alive(deref(cs, found.ref), TRUE)],
                    Tail(positions))

rectangle_seed(row_start, row_end, col_start, col_end) ==
    /\ err = "none"
    /\ LET res == rectangle_seed_loop(cells, rectangle(row_start, row_end, col_start, col_end))
       IN /\ cells' = res.cells
          /\ err' = res.err
    /\ UNCHANGED <<n_rows, n_cols, _tick, n_tick_calls, pc, locals, ret>>

(***************************************************************************)
(* World(Board(n_rows, n_cols)) for every pair of dimensions in the bounds *)
(***************************************************************************)
Init ==
    /\ n_rows \in 0..MaxDim
    /\ n_cols \in 0..MaxDim
    /\ n_rows * n_cols <= MaxCells
    /\ cells = BoardCells(n_rows, n_cols)
    /\ _tick = 0
    /\ err = "none"
    /\ n_tick_calls = 0
    /\ pc = "idle"
    /\ locals = NoLocals
    /\ ret = NoReturn

\* the arguments tried for a seeding range over a dimension of n slots: every
\* start from -1 to n and every end from 0 to n + 1 (the pairs left out, a
\* start of n + 1 or an end of -1, are empty ranges like range(0, 0))
SeedStarts(n) == (-1)..n
SeedEnds(n) == 0..(n + 1)

Next ==
    \/ (_tick < MaxGen /\ tick)
    \/ \E row_start \in SeedStarts(n_rows), row_end \in SeedEnds(n_rows) :
         \E col_start \in SeedStarts(n_cols), col_end \in SeedEnds(n_cols) :
            rectangle_seed(row_start, row_end, col_start, col_end)
    \/ \E n_live \in 0..MaxLive : random_seed(n_live)

Spec == Init /\ [][Next]_vars

(***************************************************************************)
(* Ticking a seeded world.  Seeding can make any set of cells alive (one   *)
(* rectangle_seed(r, r + 1, c, c + 1) per cell), so a run of main()'s loop *)
(* starts from any grid content; then only tick() is called.               *)
(***************************************************************************)
\* the heap of a board whose alive cells are exactly the positions in alive
SeededCells(nr, nc, alive) ==
    [row \in 0..(nr - 1) |->
        [col \in 0..(nc - 1) |-> set_alive(Cell(row, col), <<row, col>> \in alive)]]

Positions(nr, nc) == (0..(nr - 1)) \X (0..(nc - 1))

InitSeeded(nr, nc, alive) ==
    /\ n_rows = nr
    /\ n_cols = nc
    /\ cells = SeededCells(nr, nc, alive)
    /\ _tick = 0
    /\ err = "none"
    /\ n_tick_calls = 0
    /\ pc = "idle"
    /\ locals = NoLocals
    /\ ret = NoReturn

InitTick ==
    \E nr, nc \in 0..MaxDim :
        /\ nr * nc <= MaxCells
        /\ \E alive \in SUBSET Positions(nr, nc) : InitSeeded(nr, nc, alive)

NextTick == _tick < MaxGen /\ tick

SpecTick == InitTick /\ [][NextTick]_vars

(***************************************************************************)
(* Runs of main()'s loop from the seeds the patterns of Life start from.   *)
(***************************************************************************)
NextRun == _tick < MaxRunTicks /\ tick

\* no cell seeded, every pair of dimensions
InitAllDead == \E nr, nc \in 0..MaxDeadDim : InitSeeded(nr, nc, {})

SpecAllDead == InitAllDead /\ [][NextRun]_vars

\* the horizontal blinker and the vertical line it turns into
BlinkerHorizontal == {<<2, 1>>, <<2, 2>>, <<2, 3>>}
BlinkerVertical == {<<1, 2>>, <<2, 2>>, <<3, 2>>}

InitBlinker == \E nr, nc \in 5..MaxBlinkerDim : InitSeeded(nr, nc, BlinkerHorizontal)

SpecBlinker == InitBlinker /\ [][NextRun]_vars

\* the 2x2 block on the 6x6 grid
Block == {<<1, 1>>, <<1, 2>>, <<2, 1>>, <<2, 2>>}

InitBlock == InitSeeded(6, 6, Block)

SpecBlock == InitBlock /\ [][NextRun]_vars

\* exactly one alive cell, at any position of any grid
InitSingle ==
    \E nr, nc \in 1..MaxSingleDim :
        \E p \in Positions(nr, nc) : InitSeeded(nr, nc, {p})

SpecSingle == InitSingle /\ [][NextRun]_vars

(***************************************************************************)
(* Seeding rectangles that lie inside the grid, on any grid content,       *)
(* before and between ticks.                                               *)
(***************************************************************************)
\* the half-open ranges <<start, end>> inside a dimension of n slots
RangesInside(n) == {rg \in (0..n) \X (0..n) : rg[1] <= rg[2]}

NextSeed ==
    \/ (_tick < MaxGen /\ tick)
    \/ \E rows \in RangesInside(n_rows), cols \in RangesInside(n_cols) :
         rectangle_seed(rows[1], rows[2], cols[1], cols[2])

InitSeed ==
    \E nr, nc \in 0..MaxDim :
        /\ nr * nc <= MaxSeedCells
        /\ \E alive \in SUBSET Positions(nr, nc) : InitSeeded(nr, nc, alive)

SpecSeed == InitSeed /\ [][NextSeed]_vars

(***************************************************************************)
(* Random seeding of a new world, once or several times.                   *)
(***************************************************************************)
NextRandom == \E n_live \in 0..MaxLive : random_seed(n_live)

SpecRandom == Init /\ [][NextRandom]_vars

(***************************************************************************)
(* main()'s loop with tick() run statement by statement.                   *)
(***************************************************************************)
NextSteps ==
    \/ (_tick < MaxGen /\ tick_scan_living)
    \/ tick_scan_dead
    \/ tick_toggle_live
    \/ tick_toggle_dead
    \/ tick_increment

SpecSteps == InitTick /\ [][NextSteps]_vars

(***************************************************************************)
(* main()'s loop with a caller that reads the board between the ticks, as  *)
(* print(world) does.                                                      *)
(***************************************************************************)
NextReads ==
    \/ (_tick < MaxGen /\ tick)
    \/ \E ref \in Positions(n_rows, n_cols) : call_is_alive(ref)
    \/ \E ref \in Positions(n_rows, n_cols) : call_is_dead(ref)
    \/ call_get_living_cells
    \/ call_get_dead_cells
    \/ \E ref \in Positions(n_rows, n_cols) : call_get_n_alive(ref)

SpecReads == InitSeed /\ [][NextReads]_vars

(***************************************************************************)
(* Definitions the claims are stated with.                                 *)
(***************************************************************************)
\* the positions of the grid whose cell is alive
AliveSet(cs) == {p \in Positions(n_rows, n_cols) : cs[p[1]][p[2]]._is_alive}

AllDead(cs) == AliveSet(cs) = {}

\* the positions at distance 1 of (r, c) that lie inside the grid
NeighbourPositions(r, c) ==
    {p \in Positions(n_rows, n_cols) :
        /\ p # <<r, c>>
        /\ p[1] - r \in {-1, 0, 1}
        /\ p[2] - c \in {-1, 0, 1}}

AliveNeighbourCount(cs, r, c) == Cardinality(NeighbourPositions(r, c) \cap AliveSet(cs))

\* Conway's rule for the next state of (r, c), read on the heap cs
LifeRule(cs, r, c) ==
    \/ cs[r][c]._is_alive /\ AliveNeighbourCount(cs, r, c) \in {2, 3}
    \/ ~cs[r][c]._is_alive /\ AliveNeighbourCount(cs, r, c) = 3

\* a step that is one call of tick()
TickStep == n_tick_calls' = n_tick_calls + 1

(***************************************************************************)
(* C1: after one tick() a cell is alive iff, on the grid as it was before  *)
(* the tick, it was alive with exactly 2 or 3 alive neighbours or dead     *)
(* with exactly 3; every other cell is dead.                               *)
(***************************************************************************)
C1_TickAppliesLifeRule ==
    [][TickStep =>
        \A p \in Positions(n_rows, n_cols) :
            cells'[p[1]][p[2]]._is_alive = LifeRule(cells, p[1], p[2])]_vars

\* a 3x3 grid after its first tick holding the vertical line that a tick
\* makes of the horizontal one: two births, two deaths, one survival
C1_Witness ==
    /\ n_rows = 3 /\ n_cols = 3
    /\ n_tick_calls = 1
    /\ AliveSet(cells) = {<<0, 1>>, <<1, 1>>, <<2, 1>>}

(***************************************************************************)
(* C2: a cell access by coordinates with a row outside [0, n_rows) or a    *)
(* col outside [0, n_cols), negative or too large, ends in an out-of-      *)
(* bounds failure and changes no cell.  Stated on the single access        *)
(* find_cell_by_row_col(row, col) that rectangle_seed(row, row + 1, col,   *)
(* col + 1) makes.                                                         *)
(***************************************************************************)
OutOfGrid(row, col) ==
    ~(0 <= row /\ row < n_rows) \/ ~(0 <= col /\ col < n_cols)

C2_OutOfBoundsAccessFails ==
    [][\A row \in SeedStarts(n_rows), col \in SeedStarts(n_cols) :
          (OutOfGrid(row, col) /\ rectangle_seed(row, row + 1, col, col + 1))
              => (err' = "IndexError" /\ cells' = cells)]_vars

(***************************************************************************)
(* C3: on every grid, the degenerate ones with n_rows = 0 or n_cols = 0    *)
(* included, tick(), rectangle_seed with ranges inside the grid and        *)
(* random_seed(n_live) with n_live >= 0 complete without raising.          *)
(***************************************************************************)
RangeInside(start, end, n) == 0 <= start /\ start <= end /\ end <= n

C3_OperationsNeverRaise ==
    [][(\/ TickStep
        \/ \E row_start \in SeedStarts(n_rows), row_end \in SeedEnds(n_rows) :
             \E col_start \in SeedStarts(n_cols), col_end \in SeedEnds(n_cols) :
                /\ RangeInside(row_start, row_end, n_rows)
                /\ RangeInside(col_start, col_end, n_cols)
                /\ rectangle_seed(row_start, row_end, col_start, col_end)
        \/ \E n_live \in 0..MaxLive : random_seed(n_live))
          => err' = "none"]_vars

(***************************************************************************)
(* C4: the generation counter is 0 after construction and always equals    *)
(* the number of tick() calls made so far: a tick adds exactly 1 whatever  *)
(* the grid holds, and seeding leaves it alone.                            *)
(***************************************************************************)
C4_GenerationCountsTicks == _tick = n_tick_calls

\* two ticks done on a grid that was seeded and still has alive cells
C4_Witness ==
    /\ n_tick_calls = 2
    /\ err = "none"
    /\ AliveSet(cells) # {}

(***************************************************************************)
(* C5: in every reachable state get_living_cells() and get_dead_cells()    *)
(* together yield n_rows * n_cols cells, and every position of the grid    *)
(* is yielded by exactly one of the two.                                   *)
(***************************************************************************)
Occurrences(seq, x) == Cardinality({k \in 1..Len(seq) : seq[k] = x})

C5_LivingAndDeadPartitionGrid ==
    LET living == get_living_cells(cells)
        dead == get_dead_cells(cells)
    IN /\ Len(living) + Len(dead) = n_rows * n_cols
       /\ \A p \in Positions(n_rows, n_cols) :
             Occurrences(living, p) + Occurrences(dead, p) = 1

\* after a tick, with cells of both kinds on the grid
C5_Witness ==
    /\ n_tick_calls >= 1
    /\ Len(get_living_cells(cells)) >= 2
    /\ Len(get_dead_cells(cells)) >= 2

(***************************************************************************)
(* C6: a grid of any dimensions in which every cell is dead is all dead    *)
(* after any number of tick() calls.                                       *)
(***************************************************************************)
C6_AllDeadStaysAllDead == AllDead(cells)

\* the 6x6 grid, ten ticks on
C6_Witness ==
    /\ n_rows = 6 /\ n_cols = 6
    /\ n_tick_calls = 10
    /\ AllDead(cells)

(***************************************************************************)
(* C7: on a grid of at least 5x5 seeded with the horizontal blinker        *)
(* (2,1),(2,2),(2,3), the alive cells are exactly (1,2),(2,2),(3,2) after  *)
(* every odd number of ticks and exactly the seed after every even number. *)
(***************************************************************************)
C7_BlinkerHasPeriodTwo ==
    AliveSet(cells) =
        IF n_tick_calls % 2 = 0 THEN BlinkerHorizontal ELSE BlinkerVertical

\* the 5x5 grid after three ticks, vertical for the second time
C7_Witness ==
    /\ n_rows = 5 /\ n_cols = 5
    /\ n_tick_calls = 3
    /\ AliveSet(cells) = BlinkerVertical

(***************************************************************************)
(* C8: on the 6x6 grid seeded with the block (1,1),(1,2),(2,1),(2,2) the   *)
(* alive cells are exactly those four after every number of ticks; each    *)
(* block cell has exactly 3 alive neighbours and no dead cell has 3.       *)
(***************************************************************************)
C8_BlockIsStillLife ==
    /\ AliveSet(cells) = Block
    /\ \A p \in Positions(n_rows, n_cols) :
          LET n_alive_neighbours == get_n_alive(cells, get_neighbours(cells, p))
          IN IF p \in Block THEN n_alive_neighbours = 3 ELSE n_alive_neighbours # 3

\* the block, ten ticks on
C8_Witness ==
    /\ n_tick_calls = 10
    /\ AliveSet(cells) = Block

(***************************************************************************)
(* C9: a grid with exactly one alive cell, at any position, is all dead    *)
(* after one tick(); so is the 5x5 grid seeded with (2,2) alone.           *)
(***************************************************************************)
C9_SingleCellDies == n_tick_calls >= 1 => AllDead(cells)

\* the 5x5 grid right after its first tick
C9_Witness ==
    /\ n_rows = 5 /\ n_cols = 5
    /\ n_tick_calls = 1
    /\ AllDead(cells)

(***************************************************************************)
(* C10: the alive-neighbour count tick uses for a cell (r, c) is the       *)
(* number of alive cells among the positions (r+dr, c+dc), (dr, dc) #      *)
(* (0, 0), inside the grid; positions outside are dropped and never wrap,  *)
(* so the corner (0,0) only ever looks at (0,1), (1,0) and (1,1).          *)
(***************************************************************************)
SeqRange(seq) == {seq[k] : k \in 1..Len(seq)}

C10_NeighbourCountNeverWraps ==
    /\ \A p \in Positions(n_rows, n_cols) :
          LET neighbours == get_neighbours(cells, p)
          IN /\ get_n_alive(cells, neighbours) = AliveNeighbourCount(cells, p[1], p[2])
             /\ SeqRange(neighbours) = NeighbourPositions(p[1], p[2])
             /\ Len(neighbours) = Cardinality(NeighbourPositions(p[1], p[2]))
    /\ (n_rows >= 1 /\ n_cols >= 1) =>
          SeqRange(get_neighbours(cells, <<0, 0>>)) \subseteq {<<0, 1>>, <<1, 0>>, <<1, 1>>}

\* a 3x3 grid whose corner (0,0) has one alive neighbour, (0,1), while the
\* cells a wrap would reach, (2,2), (2,0) and (0,2), are alive
C10_Witness ==
    /\ n_rows = 3 /\ n_cols = 3
    /\ AliveSet(cells) = {<<0, 1>>, <<0, 2>>, <<2, 0>>, <<2, 2>>}
    /\ get_n_alive(cells, get_neighbours(cells, <<0, 0>>)) = 1

(***************************************************************************)
(* C11: for 0 <= row_start <= row_end <= n_rows and 0 <= col_start <=      *)
(* col_end <= n_cols, rectangle_seed(row_start, row_end, col_start,        *)
(* col_end) leaves every cell of the half-open rectangle alive, every      *)
(* other cell as it was, and the generation counter unchanged.             *)
(***************************************************************************)
InRectangle(p, rows, cols) ==
    /\ rows[1] <= p[1] /\ p[1] < rows[2]
    /\ cols[1] <= p[2] /\ p[2] < cols[2]

C11_RectangleSeedFrame ==
    [][\A rows \in RangesInside(n_rows), cols \in RangesInside(n_cols) :
          (n_tick_calls' = n_tick_calls
              /\ rectangle_seed(rows[1], rows[2], cols[1], cols[2]))
          => /\ err' = "none"
             /\ _tick' = _tick
             /\ \A p \in Positions(n_rows, n_cols) :
                   cells'[p[1]][p[2]]._is_alive =
                       IF InRectangle(p, rows, cols) THEN TRUE
                       ELSE cells[p[1]][p[2]]._is_alive]_vars

\* a 3x2 grid after a tick on which the rectangle rows 0..1, col 1 is alive,
\* one cell outside it is alive and the others outside it are dead
C11_Witness ==
    /\ n_rows = 3 /\ n_cols = 2
    /\ n_tick_calls = 1
    /\ AliveSet(cells) = {<<0, 1>>, <<1, 1>>, <<2, 0>>}

(***************************************************************************)
(* C12: on an all-dead grid with at least one cell, after                  *)
(* random_seed(n_live), whatever the draws, at most n_live cells are       *)
(* alive, every cell set alive is inside the grid (no draw addresses a     *)
(* slot outside it), and no cell that was alive is made dead.              *)
(***************************************************************************)
SameShape(cs1, cs2) ==
    /\ DOMAIN cs1 = DOMAIN cs2
    /\ \A row \in DOMAIN cs1 : DOMAIN cs1[row] = DOMAIN cs2[row]

C12_RandomSeedBounds ==
    [][/\ AliveSet(cells) \subseteq AliveSet(cells')
       /\ SameShape(cells, cells')
       /\ n_rows * n_cols >= 1 => err' = "none"
       /\ \A n_live \in 0..MaxLive :
             (AllDead(cells) /\ n_rows * n_cols >= 1 /\ random_seed(n_live))
                 => Cardinality(AliveSet(cells')) <= n_live]_vars

\* a 3x3 grid seeded at random with exactly two cells alive
C12_Witness ==
    /\ n_rows = 3 /\ n_cols = 3
    /\ err = "none"
    /\ Cardinality(AliveSet(cells)) = 2

(***************************************************************************)
(* C13: tick() does not depend on the order of its scan: a second World    *)
(* that starts from the same grid and scans the cells in another order     *)
(* than row-major has the same grid after the same number of ticks (and    *)
(* the same generation counter, one more per tick).  The second World's    *)
(* tick is tick() with "for row in self.cells: for cell in row" replaced   *)
(* by a walk through the cells in the given order.                         *)
(***************************************************************************)
RECURSIVE Orderings(_)
Orderings(S) ==
    IF S = {} THEN {<<>>}
    ELSE UNION {{<<x>> \o rest : rest \in Orderings(S \ {x})} : x \in S}

Reversed(seq) == [k \in 1..Len(seq) |-> seq[Len(seq) + 1 - k]]

Rotated(seq, n) == [k \in 1..Len(seq) |-> seq[((k - 1 + n) % Len(seq)) + 1]]

ColumnMajor ==
    [k \in 1..(n_rows * n_cols) |-> <<(k - 1) % n_rows, (k - 1) \div n_rows>>]

\* the scan orders tried: all of them on a small grid, and on a larger one
\* the rotations of row-major, their reversals, and column-major
ScanOrders ==
    IF n_rows * n_cols <= MaxOrderCells THEN Orderings(Positions(n_rows, n_cols))
    ELSE {ColumnMajor, Reversed(ColumnMajor)}
         \cup {Rotated(IterCells(0), n) : n \in 0..(n_rows * n_cols - 1)}
         \cup {Reversed(Rotated(IterCells(0), n)) : n \in 0..(n_rows * n_cols - 1)}

\* the grid after a tick that scans the cells in the given order
TickInOrder(cs, order) ==
    LET n_alive_neighbours(ref) == get_n_alive(cs, get_neighbours(cs, ref))
        living_cells == SelectSeq(order, LAMBDA ref : is_alive(deref(cs, ref)))
        dead_cells == SelectSeq(order, LAMBDA ref : is_dead(deref(cs, ref)))
        live_to_toggle ==
            SelectSeq(living_cells, LAMBDA ref : living_cell_toggles(n_alive_neighbours(ref)))
        dead_to_toggle ==
            SelectSeq(dead_cells, LAMBDA ref : dead_cell_toggles(n_alive_neighbours(ref)))
    IN toggle_alive(toggle_alive(cs, live_to_toggle), dead_to_toggle)

C13_TickIsOrderIndependent ==
    [][TickStep =>
        /\ _tick' = _tick + 1
        /\ \A order \in ScanOrders : cells' = TickInOrder(cells, order)]_vars

\* a 3x2 grid after its second tick with cells of both kinds: every one of
\* the 720 scan orders has been compared on it twice
C13_Witness ==
    /\ n_rows = 3 /\ n_cols = 2
    /\ n_tick_calls = 2
    /\ AliveSet(cells) # {}
    /\ AliveSet(cells) # Positions(n_rows, n_cols)

(***************************************************************************)
(* C14: within one tick() no cell changes until the scan of the living     *)
(* and the scan of the dead cells have both finished, so every neighbour   *)
(* count is taken on the pre-tick grid; all flips come after the last      *)
(* count and before the generation counter is incremented.                 *)
(***************************************************************************)
C14_ScanBeforeApply ==
    [][/\ pc \in {"idle", "scan_dead"} => cells' = cells
       /\ pc' = "toggle_live" =>
             /\ locals'.live_to_toggle = _tick_living_cells(cells')
             /\ locals'.dead_to_toggle = _tick_dead_cells(cells')
       /\ cells' # cells => (pc \in {"toggle_live", "toggle_dead"} /\ _tick' = _tick)
       /\ _tick' # _tick =>
             /\ pc = "increment"
             /\ cells' = cells
             /\ \A k \in 1..Len(locals.live_to_toggle) :
                   is_dead(deref(cells, locals.live_to_toggle[k]))
             /\ \A k \in 1..Len(locals.dead_to_toggle) :
                   is_alive(deref(cells, locals.dead_to_toggle[k]))]_vars

\* a tick about to increment the counter after two deaths and two births
C14_Witness ==
    /\ pc = "increment"
    /\ Len(locals.live_to_toggle) = 2
    /\ Len(locals.dead_to_toggle) = 2

(***************************************************************************)
(* C15: counting the alive neighbours of a cell, get_living_cells,         *)
(* get_dead_cells, is_alive and is_dead leave every cell state and the     *)
(* generation counter unchanged, and the count returned is that of the     *)
(* grid at the moment of the call.                                         *)
(***************************************************************************)
\* a step that is a read operation returning something new
ReadStep ==
    IF ret'.op # ret.op THEN TRUE
    ELSE ret'.arg # ret.arg \/ ret'.value # ret.value

C15_ReadsChangeNothing ==
    [][ReadStep =>
        /\ cells' = cells
        /\ _tick' = _tick
        /\ ret'.op = "get_n_alive" =>
              ret'.value = AliveNeighbourCount(cells, ret'.arg[1], ret'.arg[2])
        /\ ret'.op = "is_alive" => ret'.value = (ret'.arg \in AliveSet(cells))
        /\ ret'.op = "is_dead" => ret'.value = (ret'.arg \notin AliveSet(cells))
        /\ ret'.op = "get_living_cells" => SeqRange(ret'.value) = AliveSet(cells)
        /\ ret'.op = "get_dead_cells" =>
              SeqRange(ret'.value) = Positions(n_rows, n_cols) \ AliveSet(cells)]_vars

\* after a tick, a count of 2 read for a cell of a grid that holds alive cells
C15_Witness ==
    /\ n_tick_calls = 1
    /\ ret.op = "get_n_alive"
    /\ ret.value = 2
    /\ AliveSet(cells) # {}

(***************************************************************************)
(* C16: get_living_cells() and get_dead_cells() each yield their cells in  *)
(* row-major order, row ascending and column ascending within a row, no    *)
(* cell twice, in every grid state.                                        *)
(***************************************************************************)
\* the cell at ref comes strictly before the cell at ref2 in row-major order
RowMajorBefore(cs, ref, ref2) ==
    LET cell == deref(cs, ref)
        cell2 == deref(cs, ref2)
    IN cell.row < cell2.row \/ (cell.row = cell2.row /\ cell.col < cell2.col)

StrictlyRowMajor(cs, refs) ==
    \A k \in 1..(Len(refs) - 1) : RowMajorBefore(cs, refs[k], refs[k + 1])

C16_RowMajorOrder ==
    /\ StrictlyRowMajor(cells, get_living_cells(cells))
    /\ StrictlyRowMajor(cells, get_dead_cells(cells))

\* a 3x3 grid after a tick whose living cells span two rows and two columns,
\* as do its dead cells
C16_Witness ==
    /\ n_rows = 3 /\ n_cols = 3
    /\ n_tick_calls = 1
    /\ AliveSet(cells) = {<<0, 0>>, <<0, 1>>, <<1, 0>>, <<1, 1>>}

(***************************************************************************)
(* C17: in every tick() the list of cells to toggle from the living scan   *)
(* and the list from the dead scan are disjoint and hold no cell twice;    *)
(* every cell of the first is alive and every cell of the second is dead   *)
(* when it is toggled; so toggling gives what setting the first dead and   *)
(* the second alive gives, and no cell is flipped twice.                   *)
(***************************************************************************)
NoDuplicates(seq) == \A j, k \in 1..Len(seq) : seq[j] = seq[k] => j = k

\* the heap cs with the cells at refs set to the given state
SetAll(cs, refs, alive) ==
    [row \in DOMAIN cs |->
        [col \in DOMAIN cs[row] |->
            IF <<row, col>> \in SeqRange(refs) THEN set_alive(cs[row][col], alive)
            ELSE cs[row][col]]]

C17_ToggleListsDisjoint ==
    [][/\ pc' = "toggle_live" =>
             /\ NoDuplicates(locals'.live_to_toggle)
             /\ NoDuplicates(locals'.dead_to_toggle)
             /\ SeqRange(locals'.live_to_toggle) \cap SeqRange(locals'.dead_to_toggle) = {}
       /\ pc = "toggle_live" =>
             /\ \A k \in 1..Len(locals.live_to_toggle) :
                   is_alive(deref(cells, locals.live_to_toggle[k]))
             /\ cells' = SetAll(cells, locals.live_to_toggle, FALSE)
       /\ pc = "toggle_dead" =>
             /\ \A k \in 1..Len(locals.dead_to_toggle) :
                   is_dead(deref(cells, locals.dead_to_toggle[k]))
             /\ cells' = SetAll(cells, locals.dead_to_toggle, TRUE)]_vars

\* a second tick that has toggled its dying cells and is about to toggle
\* the cells to be born
C17_Witness ==
    /\ pc = "toggle_dead"
    /\ n_tick_calls = 2
    /\ Len(locals.live_to_toggle) >= 1
    /\ Len(locals.dead_to_toggle) >= 1

(***************************************************************************)
(* C18: on a grid with n_rows >= 1 and n_cols >= 1, find_cell(idx) for     *)
(* 0 <= idx < n_rows * n_cols returns the cell at row idx div n_cols and   *)
(* column idx mod n_cols, inside the grid; the mapping is a bijection onto *)
(* the grid positions, and randint(0, n_rows * n_cols - 1) draws exactly   *)
(* these indices: every draw of random_seed addresses a cell of the grid   *)
(* and every cell can be drawn.                                            *)
(***************************************************************************)
C18_FindCellBijection ==
    (n_rows >= 1 /\ n_cols >= 1) =>
        LET indices == 0..(n_rows * n_cols - 1)
        IN /\ randint(0, one_dim_size - 1) = [err |-> "none", values |-> indices]
           /\ \A idx \in indices :
                 /\ find_cell(idx).err = "none"
                 /\ find_cell(idx).ref = <<idx \div n_cols, idx % n_cols>>
                 /\ find_cell(idx).ref \in Positions(n_rows, n_cols)
           /\ \A idx, idx2 \in indices :
                 find_cell(idx).ref = find_cell(idx2).ref => idx = idx2
           /\ {find_cell(idx).ref : idx \in indices} = Positions(n_rows, n_cols)
           /\ err = "none"

\* a 2x3 grid on which the draws have reached every cell
C18_Witness ==
    /\ n_rows = 2 /\ n_cols = 3
    /\ err = "none"
    /\ AliveSet(cells) = Positions(n_rows, n_cols)

====
